---- MODULE Spec2Model ----
(***************************************************************************)
(* Model of the HanCache eviction engines: LRUCache, LRUKCache,            *)
(* HashLRUCaches (src/LRUCache.h), LFUCache and LFUCachePro                *)
(* (src/LFUCache.h).  Every list is modelled at pointer level: a node is   *)
(* an integer, next/prev are functions on nodes.                           *)
(***************************************************************************)
EXTENDS Integers, Sequences, FiniteSets, TLC

VARIABLES
    engine,     \* which class the instance under test is
    lru,        \* the LRUCache instance
    lfu,        \* the LFUCache instance
    pro,        \* the LFUCachePro instance
    lruk,       \* the LRUKCache instance: base LRUCache, historyList_, k_
    hashed,     \* the HashLRUCaches instance: sliceNum_, lruCaches_, hash
    crashed,    \* "none", or the fault that ended the process
    lastCall,   \* the last completed public call and what it returned
    touched,    \* history: keys ever put, most recently touched first
    kHist,      \* history of LRUKCache calls: puts per key, current put run
    threads,    \* concurrent callers of one LRUCache: position and locals
    mutex_      \* LRUCache::mutex_: 0 when free, else the holding thread

vars == <<engine, lru, lfu, pro, lruk, hashed, crashed, lastCall, touched,
          kHist, threads, mutex_>>

----------------------------------------------------------------------------
(* Bounds of the model *)

MaxKey == 3
MaxCap == 2

Keys == 1..MaxKey
Values == {"a", "b"}
Capacities == 0..MaxCap

(* a null shared_ptr *)
Null == -1

(* the value of an out-parameter the callee did not assign *)
Unset == "unset"

Min(S) == CHOOSE x \in S : \A y \in S : x <= y

----------------------------------------------------------------------------
(* LRUCache<Key, Value>: src/LRUCache.h 45-139.  A node is identified by   *)
(* its key; dummy_ is node 0.                                              *)

Dummy == 0
LRUNodes == {Dummy} \cup Keys

LRUCache_new(capacity) ==
    [capacity_ |-> capacity,
     nodemap_  |-> {},
     next_     |-> [n \in LRUNodes |-> IF n = Dummy THEN Dummy ELSE Null],
     prev_     |-> [n \in LRUNodes |-> IF n = Dummy THEN Dummy ELSE Null],
     value_    |-> [n \in Keys |-> Unset]]

LRUCache_removeNode(c, node) ==
    LET c1 == [c EXCEPT !.prev_[c.next_[node]] = c.prev_[node]]
    IN  [c1 EXCEPT !.next_[c1.prev_[node]] = c1.next_[node]]

(* LRUCache_moveToFront without the back link of line 68 *)
LRUCache_moveToFront_noBackLink(c, node) ==
    LET c1 == [c  EXCEPT !.next_[node] = c.next_[Dummy]]
        c2 == [c1 EXCEPT !.prev_[node] = Dummy]
    IN  [c2 EXCEPT !.next_[c2.prev_[node]] = node]

LRUCache_moveToFront(c, node) ==
    LET c1 == [c  EXCEPT !.next_[node] = c.next_[Dummy]]
        c2 == [c1 EXCEPT !.prev_[node] = Dummy]
        c3 == [c2 EXCEPT !.next_[c2.prev_[node]] = node]
    IN  [c3 EXCEPT !.prev_[c3.next_[node]] = node]

(* getNode: <<cache, node>>, node = Null when the key is not in nodemap_ *)
LRUCache_getNode(c, key) ==
    IF key \notin c.nodemap_
    THEN <<c, Null>>
    ELSE <<LRUCache_moveToFront(LRUCache_removeNode(c, key), key), key>>

(* a node no shared_ptr refers to any more *)
LRUCache_release(c, node) ==
    [c EXCEPT !.next_[node] = Null, !.prev_[node] = Null, !.value_[node] = Unset]

(* LRUCache_evict with the victim taken at the front of the list *)
LRUCache_evict_front(c) ==
    LET node == c.next_[Dummy]
        c1   == LRUCache_removeNode(c, node)
    IN  LRUCache_release([c1 EXCEPT !.nodemap_ = @ \ {node}], node)

LRUCache_evict(c) ==
    LET node == c.prev_[Dummy]
        c1   == LRUCache_removeNode(c, node)
    IN  LRUCache_release([c1 EXCEPT !.nodemap_ = @ \ {node}], node)

(* LRUCache_put without the assignment of line 99 *)
LRUCache_put_keepValue(c, key, value) ==
    IF c.capacity_ <= 0 THEN c
    ELSE LET g == LRUCache_getNode(c, key)
         IN  IF g[2] # Null
             THEN g[1]
             ELSE LET c1 == [c EXCEPT !.value_[key] = value]
                      c2 == LRUCache_moveToFront(c1, key)
                      c3 == [c2 EXCEPT !.nodemap_ = @ \cup {key}]
                  IN  IF Cardinality(c3.nodemap_) > c3.capacity_
                      THEN LRUCache_evict(c3)
                      ELSE c3

LRUCache_put(c, key, value) ==
    IF c.capacity_ <= 0 THEN c
    ELSE LET g == LRUCache_getNode(c, key)
         IN  IF g[2] # Null
             THEN [g[1] EXCEPT !.value_[key] = value]
             ELSE LET c1 == [c EXCEPT !.value_[key] = value]
                      c2 == LRUCache_moveToFront(c1, key)
                      c3 == [c2 EXCEPT !.nodemap_ = @ \cup {key}]
                  IN  IF Cardinality(c3.nodemap_) > c3.capacity_
                      THEN LRUCache_evict(c3)
                      ELSE c3

(* bool get(Key, Value&): [cache, hit, out] *)
LRUCache_get(c, key) ==
    LET g == LRUCache_getNode(c, key)
    IN  IF g[2] # Null
        THEN [cache |-> g[1], hit |-> TRUE, out |-> g[1].value_[key]]
        ELSE [cache |-> c, hit |-> FALSE, out |-> Unset]

(* Value get(Key): [cache, value].  initial is what the local `Value value` *)
(* holds before the call assigns it: "" for a std::string, whatever the    *)
(* memory held for a size_t.                                               *)
LRUCache_getValue(c, key, initial) ==
    LET r == LRUCache_get(c, key)
    IN  [cache |-> r.cache, value |-> IF r.hit THEN r.out ELSE initial]

(* LRUCache_remove without the erase of line 136 *)
LRUCache_remove_keepIndex(c, key) ==
    LET g == LRUCache_getNode(c, key)
    IN  IF g[2] # Null
        THEN LRUCache_removeNode(g[1], key)
        ELSE c

LRUCache_remove(c, key) ==
    LET g == LRUCache_getNode(c, key)
    IN  IF g[2] # Null
        THEN LET c1 == LRUCache_removeNode(g[1], key)
             IN  LRUCache_release([c1 EXCEPT !.nodemap_ = @ \ {key}], key)
        ELSE c

(* the keys of the list from dummy_->next_ on, most recently used first *)
RECURSIVE LRUWalk(_, _, _)
LRUWalk(c, node, fuel) ==
    IF node = Dummy \/ node = Null \/ fuel = 0 THEN <<>>
    ELSE <<node>> \o LRUWalk(c, c.next_[node], fuel - 1)

LRUList(c) == LRUWalk(c, c.next_[Dummy], MaxKey + 1)

----------------------------------------------------------------------------
(* size_t arithmetic.  The width is scaled down to SizeBits bits so that   *)
(* wrap-around stays within the integers of the model checker.             *)

SizeBits == 5
Modulus == 2 ^ SizeBits
SIZE_MAX == Modulus - 1
SizeT(x) == x % Modulus

(* size_t to int and back, two's complement *)
IntOf(s) == IF s >= Modulus \div 2 THEN s - Modulus ELSE s

(* functions with a growing domain: the nodes that are allocated *)
EmptyFcn == [x \in {} |-> Null]
Upd(f, k, v) == [x \in DOMAIN f \cup {k} |-> IF x = k THEN v ELSE f[x]]
Drop(f, k) == [x \in DOMAIN f \ {k} |-> f[x]]

(* the sentinel node freqNodeMap_[freq]; entry nodes are the keys, >= 1 *)
DummyOf(freq) == 0 - (freq + 2)

----------------------------------------------------------------------------
(* LFUCache<Key, Value>: src/LFUCache.h 39-136 *)

(* minFreq_ has no initialiser: minFreq is whatever the memory held *)
LFUCache_new(capacity, minFreq) ==
    [capacity_    |-> capacity,
     minFreq_     |-> minFreq,
     keyNodeMap_  |-> {},
     freqNodeMap_ |-> {},
     next         |-> EmptyFcn,
     prev         |-> EmptyFcn,
     accessCount  |-> EmptyFcn,
     value        |-> EmptyFcn,
     fault        |-> "none"]

LFUCache_removeNode(c, x) ==
    LET c1 == [c EXCEPT !.next[c.prev[x]] = c.next[x]]
    IN  [c1 EXCEPT !.prev[c1.next[x]] = c1.prev[x]]

LFUCache_addNewNode(c, freq) ==
    [c EXCEPT !.freqNodeMap_ = @ \cup {freq},
              !.next = Upd(@, DummyOf(freq), DummyOf(freq)),
              !.prev = Upd(@, DummyOf(freq), DummyOf(freq))]

LFUCache_moveToFront(c, freq, x) ==
    LET c0 == IF freq \notin c.freqNodeMap_ THEN LFUCache_addNewNode(c, freq) ELSE c
        dummy == DummyOf(freq)
        c1 == [c0 EXCEPT !.next = Upd(@, x, c0.next[dummy])]
        c2 == [c1 EXCEPT !.prev = Upd(@, x, dummy)]
        c3 == [c2 EXCEPT !.prev[c2.next[x]] = x]
    IN  [c3 EXCEPT !.next[c3.prev[x]] = x]

(* LFUCache_getNode without the advance of minFreq_ of lines 83-84 *)
LFUCache_getNode_keepMinFreq(c, key) ==
    IF key \notin c.keyNodeMap_
    THEN <<c, Null>>
    ELSE LET c2 == LFUCache_removeNode(c, key)
             c3 == [c2 EXCEPT !.accessCount[key] = SizeT(@ + 1)]
         IN  <<LFUCache_moveToFront(c3, c3.accessCount[key], key), key>>

(* getNode: <<cache, node>>, node = Null when the key is not in keyNodeMap_ *)
LFUCache_getNode(c, key) ==
    IF key \notin c.keyNodeMap_
    THEN <<c, Null>>
    ELSE LET c1 == IF c.accessCount[key] = c.minFreq_ /\ c.prev[key] = c.next[key]
                   THEN [c EXCEPT !.minFreq_ = SizeT(@ + 1)]
                   ELSE c
             c2 == LFUCache_removeNode(c1, key)
             c3 == [c2 EXCEPT !.accessCount[key] = SizeT(@ + 1)]
         IN  <<LFUCache_moveToFront(c3, c3.accessCount[key], key), key>>

(* bool get(Key, Value&): [cache, hit, out] *)
LFUCache_get(c, key) ==
    IF c.capacity_ <= 0
    THEN [cache |-> c, hit |-> FALSE, out |-> Unset]
    ELSE LET g == LFUCache_getNode(c, key)
         IN  IF g[2] # Null
             THEN [cache |-> g[1], hit |-> TRUE, out |-> g[1].value[key]]
             ELSE [cache |-> c, hit |-> FALSE, out |-> Unset]

(* a node no shared_ptr refers to any more *)
LFUCache_release(c, node) ==
    [c EXCEPT !.next = Drop(@, node), !.prev = Drop(@, node),
              !.accessCount = Drop(@, node), !.value = Drop(@, node)]

(* LFUCache_evict with the victim taken at the front of the bucket *)
LFUCache_evict_front(c) ==
    IF c.minFreq_ \notin c.freqNodeMap_
    THEN [c EXCEPT !.fault = "nullptr"]
    ELSE LET node == c.next[DummyOf(c.minFreq_)]
         IN  IF node < 0
             THEN [c EXCEPT !.fault = "sentinel"]
             ELSE LET c1 == LFUCache_removeNode(c, node)
                  IN  LFUCache_release([c1 EXCEPT !.keyNodeMap_ = @ \ {node}], node)

(* lines 125-129.  freqNodeMap_[minFreq_] default-constructs a null        *)
(* pointer when there is no such bucket, and ->prev faults on it.  A       *)
(* bucket with no entry yields its own sentinel as the victim; the model   *)
(* stops there with fault "sentinel".                                      *)
LFUCache_evict(c) ==
    IF c.minFreq_ \notin c.freqNodeMap_
    THEN [c EXCEPT !.fault = "nullptr"]
    ELSE LET node == c.prev[DummyOf(c.minFreq_)]
         IN  IF node < 0
             THEN [c EXCEPT !.fault = "sentinel"]
             ELSE LET c1 == LFUCache_removeNode(c, node)
                  IN  LFUCache_release([c1 EXCEPT !.keyNodeMap_ = @ \ {node}], node)

(* LFUCache_insert without the assignment minFreq_ = 1 of line 134 *)
LFUCache_insert_keepMinFreq(c, key, value) ==
    LET c1 == [c EXCEPT !.accessCount = Upd(@, key, 1), !.value = Upd(@, key, value)]
        c2 == LFUCache_moveToFront(c1, 1, key)
    IN  [c2 EXCEPT !.keyNodeMap_ = @ \cup {key}]

LFUCache_insert(c, key, value) ==
    LET c1 == [c EXCEPT !.accessCount = Upd(@, key, 1), !.value = Upd(@, key, value)]
        c2 == LFUCache_moveToFront(c1, 1, key)
    IN  [c2 EXCEPT !.keyNodeMap_ = @ \cup {key}, !.minFreq_ = 1]

LFUCache_put(c, key, value) ==
    LET g == LFUCache_getNode(c, key)
    IN  IF g[2] # Null
        THEN [g[1] EXCEPT !.value[key] = value]
        ELSE LET c1 == IF Cardinality(c.keyNodeMap_) = c.capacity_
                       THEN LFUCache_evict(c)
                       ELSE c
             IN  IF c1.fault # "none" THEN c1
                 ELSE LFUCache_insert(c1, key, value)

(* the keys of bucket freq from its sentinel's next on, newest first *)
RECURSIVE LFUWalk(_, _, _)
LFUWalk(c, node, fuel) ==
    IF node < 0 \/ fuel = 0 THEN <<>>
    ELSE <<node>> \o LFUWalk(c, c.next[node], fuel - 1)

LFUBucket(c, freq) ==
    IF freq \in c.freqNodeMap_
    THEN LFUWalk(c, c.next[DummyOf(freq)], MaxKey + 1)
    ELSE <<>>

----------------------------------------------------------------------------
(* LFUCachePro<Key, Value>: src/LFUCache.h 138-276.  Two fields are        *)
(* history: pass holds the frequencies at entry to and at exit from the    *)
(* rebalance pass the current call ran, or NoPass; calls counts the calls  *)
(* made on the instance.  What the code leaves to the build is the         *)
(* parameter env of a call: env.order lists all keys, and a loop over      *)
(* keyNodeMap_ meets its entries in that order (the iteration order of an  *)
(* unordered_map is unspecified); env.trap says whether an integer         *)
(* division by zero traps, the quotient being 0 when it does not.          *)

NoPass == [ran |-> FALSE, before |-> EmptyFcn, after |-> EmptyFcn]

(* minFreq_ has no initialiser: minFreq is whatever the memory held *)
LFUCachePro_new(capacity, maxAverageNum, minFreq) ==
    [capacity_      |-> capacity,
     minFreq_       |-> minFreq,
     maxAverageNum_ |-> maxAverageNum,
     curAverageNum_ |-> 0,
     curTotalNum_   |-> 0,
     keyNodeMap_    |-> {},
     freqNodeMap_   |-> {},
     next           |-> EmptyFcn,
     prev           |-> EmptyFcn,
     accessCount    |-> EmptyFcn,
     value          |-> EmptyFcn,
     fault          |-> "none",
     pass           |-> NoPass,
     divByZero      |-> FALSE,
     calls          |-> 0]

LFUCachePro_removeNode(c, x) ==
    LET c1 == [c EXCEPT !.next[c.prev[x]] = c.next[x]]
    IN  [c1 EXCEPT !.prev[c1.next[x]] = c1.prev[x]]

LFUCachePro_addNewNode(c, freq) ==
    [c EXCEPT !.freqNodeMap_ = @ \cup {freq},
              !.next = Upd(@, DummyOf(freq), DummyOf(freq)),
              !.prev = Upd(@, DummyOf(freq), DummyOf(freq))]

LFUCachePro_moveToFront(c, freq, x) ==
    LET c0 == IF freq \notin c.freqNodeMap_ THEN LFUCachePro_addNewNode(c, freq) ELSE c
        dummy == DummyOf(freq)
        c1 == [c0 EXCEPT !.next = Upd(@, x, c0.next[dummy])]
        c2 == [c1 EXCEPT !.prev = Upd(@, x, dummy)]
        c3 == [c2 EXCEPT !.prev[c2.next[x]] = x]
    IN  [c3 EXCEPT !.next[c3.prev[x]] = x]

(* curAverageNum_ = curTotalNum_ / keyNodeMap_.size() *)
LFUCachePro_average(c, env) ==
    IF Cardinality(c.keyNodeMap_) = 0
    THEN IF env.trap
         THEN [c EXCEPT !.divByZero = TRUE, !.fault = "divzero"]
         ELSE [c EXCEPT !.divByZero = TRUE, !.curAverageNum_ = 0]
    ELSE [c EXCEPT !.curAverageNum_ = c.curTotalNum_ \div Cardinality(c.keyNodeMap_)]

(* one iteration of the loop of handleFreqOverflow, lines 210-217; acc is  *)
(* <<cache, updateMinFreq, updateTotalNum>>                                *)
LFUCachePro_rebalanceNode(acc, node) ==
    LET c    == acc[1]
        c1   == LFUCachePro_removeNode(c, node)
        sub  == SizeT(c1.accessCount[node] - (c1.maxAverageNum_ \div 2))
        freq == IF sub < 1 THEN 1 ELSE sub
        c2   == [c1 EXCEPT !.accessCount[node] = freq]
    IN  <<LFUCachePro_moveToFront(c2, freq, node),
          IF freq < acc[2] THEN freq ELSE acc[2],
          SizeT(acc[3] + freq)>>

RECURSIVE LFUCachePro_rebalanceLoop(_, _, _)
LFUCachePro_rebalanceLoop(acc, order, i) ==
    IF i > Len(order) THEN acc
    ELSE LFUCachePro_rebalanceLoop(LFUCachePro_rebalanceNode(acc, order[i]), order, i + 1)

LFUCachePro_handleFreqOverflow(c, env) ==
    LET it  == SelectSeq(env.order, LAMBDA k : k \in c.keyNodeMap_)
        acc == LFUCachePro_rebalanceLoop(<<c, SIZE_MAX, 0>>, it, 1)
        c1  == [acc[1] EXCEPT !.minFreq_ = acc[2], !.curTotalNum_ = acc[3]]
        c2  == LFUCachePro_average(c1, env)
    IN  [c2 EXCEPT !.pass = [ran |-> TRUE, before |-> c.accessCount,
                             after |-> c2.accessCount]]

LFUCachePro_increaseFreqNum(c, env) ==
    LET c1 == [c EXCEPT !.curTotalNum_ = SizeT(@ + 1)]
        c2 == LFUCachePro_average(c1, env)
    IN  IF c2.fault = "none" /\ c2.curAverageNum_ > c2.maxAverageNum_
        THEN LFUCachePro_handleFreqOverflow(c2, env)
        ELSE c2

LFUCachePro_decreaseFreqNum(c, num, env) ==
    LFUCachePro_average([c EXCEPT !.curTotalNum_ = SizeT(@ - num)], env)

(* getNode: <<cache, node>>, node = Null when the key is not in keyNodeMap_ *)
LFUCachePro_getNode(c, key, env) ==
    IF key \notin c.keyNodeMap_
    THEN <<c, Null>>
    ELSE LET c1 == IF c.accessCount[key] = c.minFreq_ /\ c.prev[key] = c.next[key]
                   THEN [c EXCEPT !.minFreq_ = SizeT(@ + 1)]
                   ELSE c
             c2 == LFUCachePro_removeNode(c1, key)
             c3 == [c2 EXCEPT !.accessCount[key] = SizeT(@ + 1)]
             c4 == LFUCachePro_moveToFront(c3, c3.accessCount[key], key)
         IN  <<LFUCachePro_increaseFreqNum(c4, env), key>>

(* bool get(Key, Value&): [cache, hit, out] *)
LFUCachePro_get(c, key, env) ==
    IF c.capacity_ <= 0
    THEN [cache |-> c, hit |-> FALSE, out |-> Unset]
    ELSE LET g == LFUCachePro_getNode(c, key, env)
         IN  IF g[2] # Null
             THEN [cache |-> g[1], hit |-> TRUE, out |-> g[1].value[key]]
             ELSE [cache |-> c, hit |-> FALSE, out |-> Unset]

(* a node no shared_ptr refers to any more *)
LFUCachePro_release(c, node) ==
    [c EXCEPT !.next = Drop(@, node), !.prev = Drop(@, node),
              !.accessCount = Drop(@, node), !.value = Drop(@, node)]

(* lines 262-267; the faults are those of LFUCache_evict, and              *)
(* decreaseFreqNum divides by the size left after the erase                *)
LFUCachePro_evict(c, env) ==
    IF c.minFreq_ \notin c.freqNodeMap_
    THEN [c EXCEPT !.fault = "nullptr"]
    ELSE LET node == c.prev[DummyOf(c.minFreq_)]
         IN  IF node < 0
             THEN [c EXCEPT !.fault = "sentinel"]
             ELSE LET c1 == LFUCachePro_removeNode(c, node)
                      c2 == [c1 EXCEPT !.keyNodeMap_ = @ \ {node}]
                      c3 == LFUCachePro_decreaseFreqNum(c2, c2.accessCount[node], env)
                  IN  LFUCachePro_release(c3, node)

LFUCachePro_insert(c, key, value, env) ==
    LET c1 == [c EXCEPT !.accessCount = Upd(@, key, 1), !.value = Upd(@, key, value)]
        c2 == LFUCachePro_moveToFront(c1, 1, key)
        c3 == [c2 EXCEPT !.keyNodeMap_ = @ \cup {key}, !.minFreq_ = 1]
    IN  LFUCachePro_increaseFreqNum(c3, env)

LFUCachePro_put(c, key, value, env) ==
    LET g == LFUCachePro_getNode(c, key, env)
    IN  IF g[2] # Null
        THEN [g[1] EXCEPT !.value[key] = value]
        ELSE LET c1 == IF Cardinality(c.keyNodeMap_) = c.capacity_
                       THEN LFUCachePro_evict(c, env)
                       ELSE c
             IN  IF c1.fault # "none" THEN c1
                 ELSE LFUCachePro_insert(c1, key, value, env)

----------------------------------------------------------------------------
(* LRUKCache<Key, std::string>: src/LRUCache.h 141-180.  base is the       *)
(* LRUCache<Key, Value> it derives from, historyList_ an                   *)
(* LRUCache<Key, size_t>.  uninit is what an uninitialised size_t holds    *)
(* when historyList_->get(key) misses.                                     *)

LRUKCache_new(capacity, historyCapacity, k) ==
    [base         |-> LRUCache_new(capacity),
     historyList_ |-> LRUCache_new(historyCapacity),
     k_           |-> k]

(* lines 162-163, 172-173: <<historyList_, historyCounts>> *)
LRUKCache_count(h, key, uninit) ==
    LET g == LRUCache_getValue(h, key, uninit)
        historyCounts == IntOf(g.value) + 1
    IN  <<LRUCache_put(g.cache, key, SizeT(historyCounts)), historyCounts>>

(* bool get(Key, Value&), lines 161-166: [cache, hit, out].  The first     *)
(* definition is a variant of it that also inserts the key into the        *)
(* primary cache once its history count is at the threshold.               *)
LRUKCache_get_promote(c, key, uninit) ==
    LET h == LRUKCache_count(c.historyList_, key, uninit)
        b == IF h[2] >= c.k_ THEN LRUCache_put(c.base, key, "") ELSE c.base
        r == LRUCache_get(b, key)
    IN  [cache |-> [c EXCEPT !.historyList_ = h[1], !.base = r.cache],
         hit |-> r.hit, out |-> r.out]

LRUKCache_get(c, key, uninit) ==
    LET h == LRUKCache_count(c.historyList_, key, uninit)
        r == LRUCache_get(c.base, key)
    IN  [cache |-> [c EXCEPT !.historyList_ = h[1], !.base = r.cache],
         hit |-> r.hit, out |-> r.out]

LRUKCache_put(c, key, value, uninit) ==
    LET g  == LRUCache_getValue(c.base, key, "")
        b1 == IF g.value # "" THEN LRUCache_put(g.cache, key, value) ELSE g.cache
        h  == LRUKCache_count(c.historyList_, key, uninit)
    IN  IF h[2] >= c.k_
        THEN [c EXCEPT !.historyList_ = LRUCache_remove(h[1], key),
                       !.base = LRUCache_put(b1, key, value)]
        ELSE [c EXCEPT !.historyList_ = h[1], !.base = b1]

----------------------------------------------------------------------------
(* HashLRUCaches<Key, Value>: src/LRUCache.h 182-222.  hash is the         *)
(* function std::hash<Key> computes, which the implementation chooses.     *)

(* std::ceil(capacity / static_cast<double>(sliceNum)) *)
CeilDiv(a, b) == IF a % b = 0 THEN a \div b ELSE (a \div b) + 1

(* the constructor with every slice given the whole capacity *)
HashLRUCaches_new_fullSize(capacity, sliceNum, hash) ==
    [capacity_  |-> capacity,
     sliceNum_  |-> sliceNum,
     hash       |-> hash,
     lruCaches_ |-> [i \in 1..sliceNum |-> LRUCache_new(capacity)]]

HashLRUCaches_new(capacity, sliceNum, hash) ==
    LET sliceSize == CeilDiv(capacity, sliceNum)
    IN  [capacity_  |-> capacity,
         sliceNum_  |-> sliceNum,
         hash       |-> hash,
         lruCaches_ |-> [i \in 1..sliceNum |-> LRUCache_new(sliceSize)]]

(* hash(key) % sliceNum_, as an index into the sequence lruCaches_ *)
HashLRUCaches_sliceIndex(c, key) == (c.hash[key] % c.sliceNum_) + 1

HashLRUCaches_put(c, key, value) ==
    LET sliceIndex == HashLRUCaches_sliceIndex(c, key)
    IN  [c EXCEPT !.lruCaches_[sliceIndex] = LRUCache_put(@, key, value)]

(* bool get(Key, Value&): [cache, hit, out] *)
HashLRUCaches_get(c, key) ==
    LET sliceIndex == HashLRUCaches_sliceIndex(c, key)
        r == LRUCache_get(c.lruCaches_[sliceIndex], key)
    IN  [cache |-> [c EXCEPT !.lruCaches_[sliceIndex] = r.cache],
         hit |-> r.hit, out |-> r.out]

----------------------------------------------------------------------------
(* The state machine.  One instance of one class is under test; the other  *)
(* variables stay at NoInstance, and threads stays empty unless the        *)
(* instance is shared between threads.                                     *)

NoInstance == "none"
NoCall ==
    [op |-> "none", key |-> 0, value |-> Unset, hit |-> FALSE, out |-> Unset,
     putBefore |-> Unset]

(* the record of a call; hit is the result of a get and, for a remove,     *)
(* whether getNode found the key; putBefore is history: for a get, the     *)
(* value of the put on the same key that was the call before it, or Unset  *)
Call(op, key, value, hit, out) ==
    [op |-> op, key |-> key, value |-> value, hit |-> hit, out |-> out,
     putBefore |-> IF op = "get" /\ lastCall.op = "put" /\ lastCall.key = key
                   THEN lastCall.value ELSE Unset]

(* history: key becomes the most recently touched one *)
Touch(seq, key) == <<key>> \o SelectSeq(seq, LAMBDA k : k # key)

InitRest ==
    /\ crashed = "none"
    /\ lastCall = NoCall
    /\ touched = <<>>

InitLRU ==
    /\ engine = "LRUCache"
    /\ \E capacity \in Capacities : lru = LRUCache_new(capacity)
    /\ lfu = NoInstance /\ pro = NoInstance /\ lruk = NoInstance
    /\ hashed = NoInstance /\ kHist = NoInstance
    /\ threads = <<>> /\ mutex_ = 0
    /\ InitRest

LRUPut(key, value) ==
    /\ engine = "LRUCache" /\ crashed = "none"
    /\ lru' = LRUCache_put(lru, key, value)
    /\ touched' = Touch(touched, key)
    /\ lastCall' = Call("put", key, value, FALSE, Unset)
    /\ UNCHANGED <<engine, lfu, pro, lruk, hashed, crashed, kHist, threads, mutex_>>

LRUGet(key) ==
    /\ engine = "LRUCache" /\ crashed = "none"
    /\ LET r == LRUCache_get(lru, key)
       IN  /\ lru' = r.cache
           /\ touched' = IF r.hit THEN Touch(touched, key) ELSE touched
           /\ lastCall' = Call("get", key, Unset, r.hit, r.out)
    /\ UNCHANGED <<engine, lfu, pro, lruk, hashed, crashed, kHist, threads, mutex_>>

LRURemove(key) ==
    /\ engine = "LRUCache" /\ crashed = "none"
    /\ lru' = LRUCache_remove(lru, key)
    /\ touched' = SelectSeq(touched, LAMBDA k : k # key)
    /\ lastCall' = Call("remove", key, Unset, key \in lru.nodemap_, Unset)
    /\ UNCHANGED <<engine, lfu, pro, lruk, hashed, crashed, kHist, threads, mutex_>>

NextLRUPutGet ==
    \/ \E key \in Keys, value \in Values : LRUPut(key, value)
    \/ \E key \in Keys : LRUGet(key)

NextLRU ==
    \/ \E key \in Keys, value \in Values : LRUPut(key, value)
    \/ \E key \in Keys : LRUGet(key)
    \/ \E key \in Keys : LRURemove(key)

----------------------------------------------------------------------------
(* LFUCache under test *)

MaxFreq == 3

(* what an uninitialised size_t may hold *)
UninitSizes == {0, 1, SIZE_MAX}

InitLFU ==
    /\ engine = "LFUCache"
    /\ \E capacity \in Capacities, minFreq \in UninitSizes :
           lfu = LFUCache_new(capacity, minFreq)
    /\ lru = NoInstance /\ pro = NoInstance /\ lruk = NoInstance
    /\ hashed = NoInstance /\ kHist = NoInstance
    /\ threads = <<>> /\ mutex_ = 0
    /\ InitRest

LFUPut(key, value) ==
    /\ engine = "LFUCache" /\ crashed = "none"
    /\ key \in lfu.keyNodeMap_ => lfu.accessCount[key] < MaxFreq
    /\ lfu' = LFUCache_put(lfu, key, value)
    /\ crashed' = lfu'.fault
    /\ touched' = Touch(touched, key)
    /\ lastCall' = Call("put", key, value, FALSE, Unset)
    /\ UNCHANGED <<engine, lru, pro, lruk, hashed, kHist, threads, mutex_>>

LFUGet(key) ==
    /\ engine = "LFUCache" /\ crashed = "none"
    /\ key \in lfu.keyNodeMap_ => lfu.accessCount[key] < MaxFreq
    /\ LET r == LFUCache_get(lfu, key)
       IN  /\ lfu' = r.cache
           /\ touched' = IF r.hit THEN Touch(touched, key) ELSE touched
           /\ lastCall' = Call("get", key, Unset, r.hit, r.out)
    /\ UNCHANGED <<engine, lru, pro, lruk, hashed, crashed, kHist, threads, mutex_>>

NextLFU ==
    \/ \E key \in Keys, value \in Values : LFUPut(key, value)
    \/ \E key \in Keys : LFUGet(key)

(* LFUCache driven by put and get, one call at a time *)
SpecLFU == InitLFU /\ [][NextLFU]_vars

----------------------------------------------------------------------------
(* LFUCachePro under test *)

MaxAverage == 4
MaxCalls == 15

Perms(S) ==
    {p \in [1..Cardinality(S) -> S] : \A i, j \in DOMAIN p : i # j => p[i] # p[j]}

InitPro ==
    /\ engine = "LFUCachePro"
    /\ \E capacity \in Capacities, maxAverageNum \in {2, MaxAverage},
          minFreq \in UninitSizes :
           pro = LFUCachePro_new(capacity, maxAverageNum, minFreq)
    /\ lru = NoInstance /\ lfu = NoInstance /\ lruk = NoInstance
    /\ hashed = NoInstance /\ kHist = NoInstance
    /\ threads = <<>> /\ mutex_ = 0
    /\ InitRest

(* the builds that a call can tell apart: every iteration order when the   *)
(* call runs a rebalance pass, both outcomes of a division by zero when    *)
(* it divides by zero, one build otherwise                                 *)
FirstEnv == [order |-> [i \in 1..MaxKey |-> i], trap |-> TRUE]
Envs(c) ==
    {[order |-> o, trap |-> t] :
        o \in IF c.pass.ran THEN Perms(Keys) ELSE {FirstEnv.order},
        t \in IF c.divByZero THEN BOOLEAN ELSE {FirstEnv.trap}}

(* no property of LFUCachePro reads a call's result or the recency of its  *)
(* keys: lastCall and touched are left alone                               *)
ProPut(key, value) ==
    /\ engine = "LFUCachePro" /\ crashed = "none"
    /\ pro.calls < MaxCalls
    /\ LET c == [pro EXCEPT !.pass = NoPass, !.divByZero = FALSE, !.calls = @ + 1]
       IN  \E env \in Envs(LFUCachePro_put(c, key, value, FirstEnv)) :
               pro' = LFUCachePro_put(c, key, value, env)
    /\ crashed' = pro'.fault
    /\ UNCHANGED <<engine, lru, lfu, lruk, hashed, lastCall, touched, kHist,
                   threads, mutex_>>

ProGet(key) ==
    /\ engine = "LFUCachePro" /\ crashed = "none"
    /\ pro.calls < MaxCalls
    /\ LET c == [pro EXCEPT !.pass = NoPass, !.divByZero = FALSE, !.calls = @ + 1]
       IN  \E env \in Envs(LFUCachePro_get(c, key, FirstEnv).cache) :
               pro' = LFUCachePro_get(c, key, env).cache
    /\ crashed' = pro'.fault
    /\ UNCHANGED <<engine, lru, lfu, lruk, hashed, lastCall, touched, kHist,
                   threads, mutex_>>

NextPro ==
    \/ \E key \in Keys, value \in Values : ProPut(key, value)
    \/ \E key \in Keys : ProGet(key)

(* LFUCachePro driven by put and get, one call at a time *)
SpecPro == InitPro /\ [][NextPro]_vars

----------------------------------------------------------------------------
(* LRUKCache under test *)

KMaxKey == 2
KMaxCap == 1
MaxCount == 2

KKeys == 1..KMaxKey
KCapacities == 0..KMaxCap
KValues == {"", "a"}

(* history: no put yet *)
NoRun == [key |-> 0, n |-> 0]

InitLRUK ==
    /\ engine = "LRUKCache"
    /\ \E capacity \in KCapacities, historyCapacity \in KCapacities, k \in {1, 2} :
           lruk = LRUKCache_new(capacity, historyCapacity, k)
    /\ kHist = [puts |-> [key \in KKeys |-> 0], run |-> NoRun]
    /\ lru = NoInstance /\ lfu = NoInstance /\ pro = NoInstance
    /\ hashed = NoInstance
    /\ threads = <<>> /\ mutex_ = 0
    /\ InitRest

(* what historyList_->get(key) may leave in its result *)
Uninit(key) ==
    IF key \in lruk.historyList_.nodemap_ THEN {0} ELSE UninitSizes

(* kHist.puts[key]: the puts of key so far; kHist.run: the key and length  *)
(* of the run of puts on one key that the last call ended; both stop       *)
(* counting at k_                                                          *)
LRUKPut(key, value) ==
    /\ engine = "LRUKCache" /\ crashed = "none"
    /\ \E uninit \in Uninit(key) : lruk' = LRUKCache_put(lruk, key, value, uninit)
    /\ LET inc(n) == IF n < lruk.k_ THEN n + 1 ELSE n
       IN  kHist' = [puts |-> [kHist.puts EXCEPT ![key] = inc(@)],
                     run  |-> [key |-> key,
                               n |-> IF kHist.run.key = key THEN inc(kHist.run.n) ELSE 1]]
    /\ lastCall' = Call("put", key, value, FALSE, Unset)
    /\ UNCHANGED <<engine, lru, lfu, pro, hashed, crashed, touched, threads, mutex_>>

LRUKGet(key) ==
    /\ engine = "LRUKCache" /\ crashed = "none"
    /\ key \in lruk.historyList_.nodemap_ =>
           IntOf(lruk.historyList_.value_[key]) < MaxCount
    /\ \E uninit \in Uninit(key) :
           LET r == LRUKCache_get(lruk, key, uninit)
           IN  /\ lruk' = r.cache
               /\ lastCall' = Call("get", key, Unset, r.hit, r.out)
    /\ kHist' = [kHist EXCEPT !.run = NoRun]
    /\ UNCHANGED <<engine, lru, lfu, pro, hashed, crashed, touched, threads, mutex_>>

NextLRUK ==
    \/ \E key \in KKeys, value \in KValues : LRUKPut(key, value)
    \/ \E key \in KKeys : LRUKGet(key)

(* LRUKCache driven by put and get, one call at a time *)
SpecLRUK == InitLRUK /\ [][NextLRUK]_vars

----------------------------------------------------------------------------
(* HashLRUCaches under test *)

MaxSlice == 2

(* the hash values that occur; every slice index up to 3 is met *)
HashValues == {0, 1, 2}

InitHash ==
    /\ engine = "HashLRUCaches"
    /\ \E capacity \in Capacities, sliceNum \in 1..MaxSlice,
          hash \in [Keys -> HashValues] :
           hashed = HashLRUCaches_new(capacity, sliceNum, hash)
    /\ lru = NoInstance /\ lfu = NoInstance /\ pro = NoInstance
    /\ lruk = NoInstance /\ kHist = NoInstance
    /\ threads = <<>> /\ mutex_ = 0
    /\ InitRest

HashPut(key, value) ==
    /\ engine = "HashLRUCaches" /\ crashed = "none"
    /\ hashed' = HashLRUCaches_put(hashed, key, value)
    /\ lastCall' = Call("put", key, value, FALSE, Unset)
    /\ UNCHANGED <<engine, lru, lfu, pro, lruk, crashed, touched, kHist, threads, mutex_>>

HashGet(key) ==
    /\ engine = "HashLRUCaches" /\ crashed = "none"
    /\ LET r == HashLRUCaches_get(hashed, key)
       IN  /\ hashed' = r.cache
           /\ lastCall' = Call("get", key, Unset, r.hit, r.out)
    /\ UNCHANGED <<engine, lru, lfu, pro, lruk, crashed, touched, kHist, threads, mutex_>>

NextHash ==
    \/ \E key \in Keys, value \in Values : HashPut(key, value)
    \/ \E key \in Keys : HashGet(key)

(* HashLRUCaches driven by put and get, one call at a time *)
SpecHash == InitHash /\ [][NextHash]_vars

----------------------------------------------------------------------------
(* One LRUCache called from several threads.  A call is three steps: the   *)
(* call itself, up to the point where it asks for mutex_ (put and get) or  *)
(* enters its body without asking (remove); the acquisition of mutex_;     *)
(* and the body, with the release of mutex_ if the call holds it.  A       *)
(* thread that enters its body while another thread is in its body races   *)
(* with it on next_, prev_ and nodemap_: the behaviour is undefined from    *)
(* there on and the model stops with crashed = "race".                     *)

MaxThreads == 2
Threads == 1..MaxThreads

Idle == [pc |-> "idle", op |-> "none", key |-> 0, value |-> Unset]

InitConc ==
    /\ engine = "LRUCache"
    /\ \E capacity \in KCapacities : lru = LRUCache_new(capacity)
    /\ threads = [t \in Threads |-> Idle]
    /\ mutex_ = 0
    /\ lfu = NoInstance /\ pro = NoInstance /\ lruk = NoInstance
    /\ hashed = NoInstance /\ kHist = NoInstance
    /\ InitRest

InBody(t) == threads[t].pc = "body"

(* crashed after thread t has entered its body *)
Race(t) ==
    IF \E u \in Threads \ {t} : InBody(u) THEN "race" ELSE "none"

(* line 93: put returns before it locks when capacity_ <= 0 *)
ConcCallPut(t, key, value) ==
    /\ crashed = "none" /\ threads[t].pc = "idle"
    /\ threads' = IF lru.capacity_ <= 0 THEN threads
                  ELSE [threads EXCEPT ![t] = [pc |-> "locking", op |-> "put",
                                               key |-> key, value |-> value]]
    /\ UNCHANGED <<engine, lru, lfu, pro, lruk, hashed, crashed, lastCall,
                   touched, kHist, mutex_>>

ConcCallGet(t, key) ==
    /\ crashed = "none" /\ threads[t].pc = "idle"
    /\ threads' = [threads EXCEPT ![t] = [pc |-> "locking", op |-> "get",
                                          key |-> key, value |-> Unset]]
    /\ UNCHANGED <<engine, lru, lfu, pro, lruk, hashed, crashed, lastCall,
                   touched, kHist, mutex_>>

(* lines 132-133: remove declares no lock_guard *)
ConcCallRemove(t, key) ==
    /\ crashed = "none" /\ threads[t].pc = "idle"
    /\ threads' = [threads EXCEPT ![t] = [pc |-> "body", op |-> "remove",
                                          key |-> key, value |-> Unset]]
    /\ crashed' = Race(t)
    /\ UNCHANGED <<engine, lru, lfu, pro, lruk, hashed, lastCall, touched,
                   kHist, mutex_>>

(* std::lock_guard<std::mutex> lock(mutex_), lines 96 and 123 *)
ConcLock(t) ==
    /\ crashed = "none" /\ threads[t].pc = "locking"
    /\ mutex_ = 0
    /\ mutex_' = t
    /\ threads' = [threads EXCEPT ![t].pc = "body"]
    /\ crashed' = Race(t)
    /\ UNCHANGED <<engine, lru, lfu, pro, lruk, hashed, lastCall, touched, kHist>>

ConcBody(t) ==
    /\ crashed = "none" /\ InBody(t)
    /\ lru' = CASE threads[t].op = "put" ->
                       LRUCache_put(lru, threads[t].key, threads[t].value)
                [] threads[t].op = "get" -> LRUCache_get(lru, threads[t].key).cache
                [] threads[t].op = "remove" -> LRUCache_remove(lru, threads[t].key)
    /\ mutex_' = IF mutex_ = t THEN 0 ELSE mutex_
    /\ threads' = [threads EXCEPT ![t] = Idle]
    /\ UNCHANGED <<engine, lfu, pro, lruk, hashed, crashed, lastCall, touched, kHist>>

NextConc ==
    \/ \E t \in Threads, key \in KKeys, value \in Values : ConcCallPut(t, key, value)
    \/ \E t \in Threads, key \in KKeys : ConcCallGet(t, key)
    \/ \E t \in Threads, key \in KKeys : ConcCallRemove(t, key)
    \/ \E t \in Threads : ConcLock(t)
    \/ \E t \in Threads : ConcBody(t)

(* one LRUCache called from several threads *)
SpecConc == InitConc /\ [][NextConc]_vars

(* LRUCache or LFUCache under test *)
SpecLRUorLFU == (InitLRU \/ InitLFU) /\ [][NextLRU \/ NextLFU]_vars

(* LRUCache, LFUCache or LFUCachePro under test *)
SpecEngines ==
    (InitLRU \/ InitLFU \/ InitPro) /\ [][NextLRU \/ NextLFU \/ NextPro]_vars

(* LRUCache driven by put and get only *)
SpecLRUPutGet == InitLRU /\ [][NextLRUPutGet]_vars

(* LRUCache driven by put, get and remove, one call at a time *)
SpecLRU == InitLRU /\ [][NextLRU]_vars

----------------------------------------------------------------------------
(* C1: LRUCache with capacity C >= 1, driven by put and get: the resident  *)
(* keys are exactly the min(C, n) most recently touched distinct keys      *)
(* (n = number of distinct keys ever put), and the key of the put that     *)
(* just completed is resident.                                             *)
C1_ResidentAreMostRecent ==
    (engine = "LRUCache" /\ lru.capacity_ >= 1) =>
        LET n == IF Len(touched) < lru.capacity_ THEN Len(touched) ELSE lru.capacity_
        IN  /\ lru.nodemap_ = {touched[i] : i \in 1..n}
            /\ Cardinality(lru.nodemap_) = n
            /\ lastCall.op = "put" => lastCall.key \in lru.nodemap_

(* a put of a new key into a full cache has just evicted a key *)
C1_Witness ==
    /\ engine = "LRUCache" /\ lru.capacity_ >= 1
    /\ lastCall.op = "put"
    /\ Len(touched) > lru.capacity_
    /\ Cardinality(lru.nodemap_) = lru.capacity_
    /\ touched[Len(touched)] < touched[1]

(* the position of key in seq *)
Pos(seq, key) == CHOOSE i \in 1..Len(seq) : seq[i] = key

(* C2: LFUCache with capacity >= 1: a put of a new key that finds the      *)
(* cache full evicts exactly one entry; the entry evicted has the minimum  *)
(* frequency among the resident entries and, among those of that           *)
(* frequency, the oldest last touch.                                       *)
C2_EvictsMinFreqOldest ==
    [][(engine = "LFUCache" /\ lfu.capacity_ >= 1) =>
        LET evicted == lfu.keyNodeMap_ \ lfu'.keyNodeMap_
        IN  /\ (/\ lastCall'.op = "put"
                /\ lastCall'.key \notin lfu.keyNodeMap_
                /\ Cardinality(lfu.keyNodeMap_) = lfu.capacity_)
               => Cardinality(evicted) = 1
            /\ \A v \in evicted : \A k \in lfu.keyNodeMap_ \ {v} :
                   /\ lfu.accessCount[v] <= lfu.accessCount[k]
                   /\ lfu.accessCount[v] = lfu.accessCount[k]
                      => Pos(touched, k) < Pos(touched, v)]_vars

(* a put of a new key has evicted an entry and spared an entry of a        *)
(* higher frequency                                                        *)
C2_Witness ==
    /\ engine = "LFUCache" /\ lfu.capacity_ >= 2
    /\ lastCall.op = "put"
    /\ Cardinality(lfu.keyNodeMap_) = lfu.capacity_
    /\ \E k \in Keys : k \notin lfu.keyNodeMap_ /\ \E i \in 1..Len(touched) : touched[i] = k
    /\ lfu.accessCount[lastCall.key] = 1
    /\ \E k \in lfu.keyNodeMap_ : lfu.accessCount[k] >= 2

(* C3: after a rebalance pass of LFUCachePro no resident frequency is      *)
(* below 1, and freq(a) > freq(b) before the pass implies                  *)
(* freq(a) >= freq(b) after it.                                            *)
C3_RebalanceKeepsOrder ==
    (engine = "LFUCachePro" /\ pro.pass.ran) =>
        /\ \A a \in DOMAIN pro.pass.after : pro.pass.after[a] >= 1
        /\ \A a, b \in DOMAIN pro.pass.before :
               pro.pass.before[a] > pro.pass.before[b] =>
                   pro.pass.after[a] >= pro.pass.after[b]

(* C4: an engine constructed with capacity 0 never faults, stays empty    *)
(* and reports a miss on every get.                                        *)
C4_ZeroCapacityIsInert ==
    /\ (engine = "LRUCache" /\ lru.capacity_ = 0) =>
           /\ crashed = "none" /\ lru.nodemap_ = {}
           /\ lastCall.op = "get" => ~lastCall.hit
    /\ (engine = "LFUCache" /\ lfu.capacity_ = 0) =>
           /\ crashed = "none" /\ lfu.keyNodeMap_ = {}
           /\ lastCall.op = "get" => ~lastCall.hit
    /\ (engine = "LFUCachePro" /\ pro.capacity_ = 0) =>
           /\ crashed = "none" /\ pro.keyNodeMap_ = {}

(* C5: every public operation of LRUCache (get, put, remove) runs its body *)
(* while holding mutex_, so no two threads are in a body at once.          *)
C5_BodiesHoldMutex ==
    /\ \A t \in DOMAIN threads : InBody(t) => mutex_ = t
    /\ \A t, u \in DOMAIN threads : (InBody(t) /\ InBody(u)) => t = u

(* C6: LFUCachePro with capacity >= 1 never divides totalFrequency by an   *)
(* entry count of 0.                                                       *)
C6_NoDivisionByZero ==
    (engine = "LFUCachePro" /\ pro.capacity_ >= 1) => ~pro.divByZero

(* C9: on LRUCache and on LFUCache with capacity >= 1, a get that follows  *)
(* put(k, v) on the same key with no call in between returns (true, v).    *)
C9_PutThenGet ==
    (/\ \/ engine = "LRUCache" /\ lru.capacity_ >= 1
        \/ engine = "LFUCache" /\ lfu.capacity_ >= 1
     /\ lastCall.op = "get" /\ lastCall.putBefore # Unset)
    => (lastCall.hit /\ lastCall.out = lastCall.putBefore)

(* such a get has returned, on LFUCache after the put evicted an entry *)
C9_Witness ==
    /\ engine = "LFUCache" /\ lfu.capacity_ >= 1
    /\ lastCall.op = "get" /\ lastCall.putBefore = "b" /\ lastCall.hit
    /\ Len(touched) > lfu.capacity_
    /\ lfu.accessCount[lastCall.key] = 2

(* C7: LRUKCache with threshold K: a key that has been passed to put fewer *)
(* than K times is not resident in the primary cache, and a get for it     *)
(* misses.                                                                 *)
C7_FewerThanKPutsNotResident ==
    engine = "LRUKCache" =>
        \A key \in KKeys : kHist.puts[key] < lruk.k_ =>
            /\ key \notin lruk.base.nodemap_
            /\ (lastCall.op = "get" /\ lastCall.key = key) => ~lastCall.hit

(* C7 as amended: a key that has never been passed to put is not resident *)
(* in the primary cache of LRUKCache, and a get for it misses, whatever    *)
(* its history count is.                                                   *)
C7_NeverPutNotResident ==
    engine = "LRUKCache" =>
        \A key \in KKeys : kHist.puts[key] = 0 =>
            /\ key \notin lruk.base.nodemap_
            /\ (lastCall.op = "get" /\ lastCall.key = key) => ~lastCall.hit

(* a get has missed on a key never put whose history count is at the       *)
(* threshold, while another key is resident                                *)
C7_Witness ==
    /\ engine = "LRUKCache" /\ lruk.k_ = 2
    /\ lastCall.op = "get" /\ ~lastCall.hit
    /\ kHist.puts[lastCall.key] = 0
    /\ lastCall.key \in lruk.historyList_.nodemap_
    /\ IntOf(lruk.historyList_.value_[lastCall.key]) >= lruk.k_
    /\ lruk.base.nodemap_ # {}

RECURSIVE HashResident(_)
HashResident(n) ==
    IF n = 0 THEN 0
    ELSE Cardinality(hashed.lruCaches_[n].nodemap_) + HashResident(n - 1)

(* C10: HashLRUCaches with N >= 1 slices: a get or put for key k changes   *)
(* no slice but slice hash(k) mod N; after it every key is resident in at  *)
(* most one slice, which is slice hash(k) mod N, and the number of         *)
(* resident entries over all slices is at most N * ceil(capacity / N).     *)
C10_ShardedRouting ==
    [][(engine = "HashLRUCaches" /\ hashed.sliceNum_ >= 1) =>
        LET N == hashed.sliceNum_
            ceil == Min({m \in 0..hashed.capacity_ : m * N >= hashed.capacity_})
        IN  /\ \A i \in 1..N :
                   i # (hashed.hash[lastCall'.key] % N) + 1
                   => hashed'.lruCaches_[i] = hashed.lruCaches_[i]
            /\ \A key \in Keys : \A i \in 1..N :
                   key \in hashed'.lruCaches_[i].nodemap_
                   => i = (hashed.hash[key] % N) + 1
            /\ HashResident(N)' <= N * ceil]_vars

(* two slices are full and together hold more entries than capacity_ *)
C10_Witness ==
    /\ engine = "HashLRUCaches" /\ hashed.sliceNum_ = 2
    /\ \A i \in 1..2 : Cardinality(hashed.lruCaches_[i].nodemap_)
                           = hashed.lruCaches_[i].capacity_
    /\ HashResident(2) > hashed.capacity_
    /\ lastCall.op = "get" /\ lastCall.hit

(* the elements of a sequence *)
Range(seq) == {seq[i] : i \in 1..Len(seq)}

(* C11: LFUCache with capacity >= 1: whenever the cache is full the bucket *)
(* at minFreq_ exists and holds at least one entry, all of them resident,  *)
(* so the victim of a put is never a sentinel and no put faults; a put of  *)
(* a new key into a full cache evicts exactly one resident entry, and the  *)
(* number of resident keys never exceeds capacity_.                        *)
C11_VictimIsRealEntry ==
    /\ []((engine = "LFUCache" /\ lfu.capacity_ >= 1) =>
            /\ crashed = "none"
            /\ Cardinality(lfu.keyNodeMap_) <= lfu.capacity_
            /\ Cardinality(lfu.keyNodeMap_) = lfu.capacity_ =>
                   /\ lfu.minFreq_ \in lfu.freqNodeMap_
                   /\ LFUBucket(lfu, lfu.minFreq_) # <<>>
                   /\ Range(LFUBucket(lfu, lfu.minFreq_)) \subseteq lfu.keyNodeMap_)
    /\ [][(/\ engine = "LFUCache" /\ lfu.capacity_ >= 1
            /\ lastCall'.op = "put"
            /\ lastCall'.key \notin lfu.keyNodeMap_
            /\ Cardinality(lfu.keyNodeMap_) = lfu.capacity_)
           => \E v \in lfu.keyNodeMap_ :
                  lfu'.keyNodeMap_ = (lfu.keyNodeMap_ \ {v}) \cup {lastCall'.key}]_vars

(* a put into a full cache of capacity 1 whose only entry had been touched *)
(* again has evicted that entry and stored the new key                     *)
C11_Witness ==
    /\ engine = "LFUCache" /\ lfu.capacity_ = 1 /\ crashed = "none"
    /\ lastCall.op = "put" /\ lfu.keyNodeMap_ = {lastCall.key}
    /\ Len(touched) >= 2
    /\ lfu.minFreq_ = 1
    /\ \E f \in lfu.freqNodeMap_ : f >= 2

(* C12: LRUCache after every completed get, put or remove: the list holds  *)
(* at most capacity_ nodes besides the sentinel, next_ and prev_ are       *)
(* inverse of each other around the circle through the sentinel, and the   *)
(* keys of nodemap_ are the keys of the list nodes, each once.             *)
C12_LRUStructure ==
    engine = "LRUCache" =>
        LET list  == LRUList(lru)
            nodes == {Dummy} \cup Range(list)
        IN  /\ Len(list) <= lru.capacity_
            /\ \A n \in nodes :
                   /\ lru.next_[n] \in nodes /\ lru.prev_[n] \in nodes
                   /\ lru.prev_[lru.next_[n]] = n
                   /\ lru.next_[lru.prev_[n]] = n
            /\ Range(list) = lru.nodemap_
            /\ Len(list) = Cardinality(lru.nodemap_)

(* a remove has found its key in a cache of capacity 2, which still holds  *)
(* one entry, and the removed key has no node any more                     *)
C12_Witness ==
    /\ engine = "LRUCache" /\ lru.capacity_ = 2
    /\ lastCall.op = "remove" /\ lastCall.hit
    /\ lru.value_[lastCall.key] = Unset
    /\ Cardinality(lru.nodemap_) = 1
    /\ lastCall.key \notin lru.nodemap_
    /\ lru.next_[lastCall.key] = Null

(* C13: LFUCache with capacity >= 1 after every completed get or put:      *)
(* every key of keyNodeMap_ is linked once into the bucket of its          *)
(* accessCount and into no other bucket, every bucket holds resident keys  *)
(* only, every accessCount is >= 1, and when the cache is not empty        *)
(* minFreq_ is the smallest accessCount of a resident entry.               *)
C13_LFUStructure ==
    (engine = "LFUCache" /\ lfu.capacity_ >= 1) =>
        /\ \A key \in lfu.keyNodeMap_ :
               /\ lfu.accessCount[key] >= 1
               /\ lfu.accessCount[key] \in lfu.freqNodeMap_
               /\ \A f \in lfu.freqNodeMap_ :
                      key \in Range(LFUBucket(lfu, f)) <=> f = lfu.accessCount[key]
        /\ \A f \in lfu.freqNodeMap_ :
               /\ Range(LFUBucket(lfu, f)) \subseteq lfu.keyNodeMap_
               /\ Len(LFUBucket(lfu, f)) = Cardinality(Range(LFUBucket(lfu, f)))
        /\ lfu.keyNodeMap_ # {} =>
               lfu.minFreq_ = Min({lfu.accessCount[k] : k \in lfu.keyNodeMap_})

(* two resident entries of different frequencies, both touched again, so   *)
(* that minFreq_ has advanced past 1                                       *)
C13_Witness ==
    /\ engine = "LFUCache" /\ lfu.capacity_ = 2
    /\ Cardinality(lfu.keyNodeMap_) = 2
    /\ lfu.minFreq_ = 2
    /\ \E k \in lfu.keyNodeMap_ : lfu.accessCount[k] = 3

(* C14: LFUCachePro with capacity >= 2 after every completed get or put:   *)
(* every resident entry has accessCount >= 1 and is linked once into the   *)
(* bucket of its accessCount and into no other, minFreq_ is <= every       *)
(* resident accessCount and its bucket is not empty, and the number of     *)
(* resident keys is at most capacity_.                                     *)
C14_ProStructure ==
    (engine = "LFUCachePro" /\ pro.capacity_ >= 2 /\ crashed = "none") =>
        /\ Cardinality(pro.keyNodeMap_) <= pro.capacity_
        /\ \A key \in pro.keyNodeMap_ :
               /\ pro.accessCount[key] >= 1
               /\ pro.accessCount[key] \in pro.freqNodeMap_
               /\ \A f \in pro.freqNodeMap_ :
                      key \in Range(LFUBucket(pro, f)) <=> f = pro.accessCount[key]
               /\ pro.minFreq_ <= pro.accessCount[key]
        /\ \A f \in pro.freqNodeMap_ :
               Len(LFUBucket(pro, f)) = Cardinality(Range(LFUBucket(pro, f)))
        /\ pro.keyNodeMap_ # {} => LFUBucket(pro, pro.minFreq_) # <<>>

Max(a, b) == IF a >= b THEN a ELSE b

(* the sum of f over the keys of S *)
RECURSIVE SumOver(_, _)
SumOver(f, S) ==
    IF S = {} THEN 0
    ELSE LET k == CHOOSE x \in S : TRUE IN f[k] + SumOver(f, S \ {k})

(* C15: a rebalance pass of LFUCachePro takes every resident entry from    *)
(* frequency f to max(1, f - floor(maxAverageNum_ / 2)) and links it into  *)
(* the bucket of the new frequency; after the pass minFreq_ is the minimum *)
(* and curTotalNum_ the sum of the new frequencies.                        *)
C15_RebalanceFormula ==
    (engine = "LFUCachePro" /\ crashed = "none" /\ pro.pass.ran) =>
        /\ DOMAIN pro.pass.before = pro.keyNodeMap_
        /\ \A k \in pro.keyNodeMap_ :
               /\ pro.pass.after[k] =
                      Max(1, pro.pass.before[k] - (pro.maxAverageNum_ \div 2))
               /\ pro.accessCount[k] = pro.pass.after[k]
               /\ k \in Range(LFUBucket(pro, pro.accessCount[k]))
        /\ pro.minFreq_ = Min({pro.pass.after[k] : k \in pro.keyNodeMap_})
        /\ pro.curTotalNum_ = SumOver(pro.pass.after, pro.keyNodeMap_)

(* C16: LFUCachePro after every completed get or put that leaves the cache *)
(* non-empty: curTotalNum_ is the sum of the frequencies of the resident   *)
(* entries and curAverageNum_ is floor(curTotalNum_ / number of entries);  *)
(* a call that runs no rebalance pass adds 1 for a touch, adds 1 for an    *)
(* insert and subtracts the frequency of the entry it evicts.              *)
C16_CounterInvariant ==
    /\ []((engine = "LFUCachePro" /\ crashed = "none" /\ pro.keyNodeMap_ # {}) =>
            /\ pro.curTotalNum_ = SumOver(pro.accessCount, pro.keyNodeMap_)
            /\ pro.curAverageNum_ =
                   pro.curTotalNum_ \div Cardinality(pro.keyNodeMap_))
    /\ [][(engine = "LFUCachePro" /\ crashed' = "none" /\ ~pro'.pass.ran) =>
            LET new  == pro'.keyNodeMap_ \ pro.keyNodeMap_
                gone == pro.keyNodeMap_ \ pro'.keyNodeMap_
            IN  IF new # {}
                THEN pro'.curTotalNum_ =
                         pro.curTotalNum_ - SumOver(pro.accessCount, gone) + 1
                ELSE pro'.curTotalNum_ =
                         pro.curTotalNum_
                         + (IF pro'.accessCount # pro.accessCount THEN 1 ELSE 0)]_vars

C18_GetLeavesPrimary ==
    [][(engine = "LRUKCache" /\ lastCall'.op = "get") =>
        LET key == lastCall'.key
        IN  /\ lruk'.base.nodemap_ = lruk.base.nodemap_
            /\ lruk'.base.value_ = lruk.base.value_
            /\ lastCall'.hit <=> key \in lruk.base.nodemap_
            /\ lastCall'.hit => lastCall'.out = lruk.base.value_[key]
            /\ ~lastCall'.hit => lastCall'.out = Unset]_vars

(* a get has hit a resident key and left a history record for it *)
C18_Witness ==
    /\ engine = "LRUKCache" /\ lruk.k_ = 2
    /\ lastCall.op = "get" /\ lastCall.hit
    /\ lastCall.key \in lruk.base.nodemap_
    /\ lastCall.key \in lruk.historyList_.nodemap_

(* C19: LRUCache::remove(key), run sequentially: when the key is resident  *)
(* it is afterwards in neither the list nor nodemap_, the next get for it  *)
(* misses, the size is one less, and the other entries keep their values   *)
(* and their order in the list; when it is not resident the cache is       *)
(* unchanged.                                                              *)
C19_RemoveFrame ==
    [][(engine = "LRUCache" /\ lastCall'.op = "remove") =>
        LET key == lastCall'.key
        IN  IF key \in lru.nodemap_
            THEN /\ key \notin lru'.nodemap_
                 /\ key \notin Range(LRUList(lru'))
                 /\ ~LRUCache_get(lru', key).hit
                 /\ Cardinality(lru'.nodemap_) = Cardinality(lru.nodemap_) - 1
                 /\ LRUList(lru') = SelectSeq(LRUList(lru), LAMBDA k : k # key)
                 /\ \A k \in lru.nodemap_ \ {key} : lru'.value_[k] = lru.value_[k]
            ELSE lru' = lru]_vars

(* a remove has found its key in a cache of two entries and left the       *)
(* other one                                                               *)
C19_Witness ==
    /\ engine = "LRUCache" /\ lru.capacity_ = 2
    /\ lastCall.op = "remove" /\ lastCall.hit
    /\ Cardinality(lru.nodemap_) = 1

(* C20: LFUCachePro with maxAverageNum_ >= 2: after every completed get or *)
(* put that leaves the cache non-empty, curAverageNum_ <= maxAverageNum_.  *)
C20_AverageBounded ==
    (/\ engine = "LFUCachePro" /\ crashed = "none"
     /\ pro.maxAverageNum_ >= 2 /\ pro.keyNodeMap_ # {})
    => pro.curAverageNum_ <= pro.maxAverageNum_

====
